---- MODULE Spec2Model ----
(***************************************************************************)
(* TensorFizzBuzz: the pattern-vector functions of fizzbuzz.py             *)
(* (fizzbuzz, create_pattern and the generalized lookup of its __main__    *)
(* block) and the batched tensor function of fizzbuzz_batched.py.          *)
(*                                                                         *)
(* Python arrays are 0-indexed; a numpy array a is modelled as the         *)
(* sequence whose element i+1 is a[i].  Python strings are TLA+ strings,   *)
(* concatenated with \o.                                                   *)
(***************************************************************************)
EXTENDS Integers, Sequences, FiniteSets, TLC

(***************************************************************************)
(* Bounds of the model.                                                    *)
(***************************************************************************)
MaxDivisor == 4
MaxDivisors == 2
MaxStart == 2
MaxCount == 15
MaxN == 18
MaxBatch == 3
MaxSeqLen == 8
MaxOffset == 2

VARIABLES
    program,     \* which script of the repository is running
    pc,          \* "idle": between calls; "returned": a call has just returned or raised
    PATTERN,     \* fizzbuzz.py module-level pattern vector
    PATTERN_COMPACT, \* fizzbuzz_compact.py module-level 2x2 matrix
    DECODER,     \* module-level decoder (fizzbuzz.py, fizzbuzz_compact.py)
    divisors,    \* the divisor spec given to create_pattern
    built,       \* TRUE once create_pattern has returned a (pattern, decoder) pair
    pattern,     \* the table returned by create_pattern
    decoder,     \* the decoder returned by create_pattern
    call,        \* the last call: [op, a, b, c]
    raised,      \* "" or the exception the last call raised
    result,      \* the array of strings the last call returned
    div_tensor,  \* fizzbuzz_batched: the returned divisibility tensor
    nums         \* fizzbuzz_batched: the returned number matrix

vars == <<program, pc, PATTERN, PATTERN_COMPACT, DECODER, divisors, built, pattern, decoder,
          call, raised, result, div_tensor, nums>>

(***************************************************************************)
(* Python and numpy primitives.                                            *)
(***************************************************************************)

\* Python's None, the fill of np.empty(..., dtype=object); no label is this string.
None == "<None>"

Abs(x) == IF x < 0 THEN -x ELSE x

\* str(d) for one decimal digit
Digit(d) == <<"0", "1", "2", "3", "4", "5", "6", "7", "8", "9">>[d + 1]

\* str(n) / ndarray.astype(str): the decimal string of an integer
RECURSIVE Str(_)
Str(n) ==
    IF n < 0 THEN "-" \o Str(-n)
    ELSE IF n < 10 THEN Digit(n)
    ELSE Str(n \div 10) \o Digit(n % 10)

\* np.arange(a, b): a, a+1, ..., b-1 (empty when b <= a)
Arange(a, b) == [t \in 1..(IF b > a THEN b - a ELSE 0) |-> a + t - 1]

\* numpy's integer remainder: sign of the divisor; 0 for a zero divisor
NpMod(a, d) ==
    IF d = 0 THEN 0
    ELSE IF d > 0 THEN a % d
    ELSE -((-a) % (-d))

\* np.gcd on non-negative operands (Euclid)
RECURSIVE Gcd(_, _)
Gcd(a, b) == IF b = 0 THEN a ELSE Gcd(b, a % b)

\* a mutant of Lcm: the larger operand taken for the least common multiple
LcmMax(a, b) == IF Abs(a) >= Abs(b) THEN Abs(a) ELSE Abs(b)

\* a mutant of Lcm: the product taken for the least common multiple
LcmProduct(a, b) == Abs(a) * Abs(b)

\* np.lcm(a, b): |a| / gcd(|a|, |b|) * |b|, and 0 when the gcd is 0
Lcm(a, b) ==
    LET g == Gcd(Abs(a), Abs(b))
    IN  IF g = 0 THEN 0 ELSE (Abs(a) \div g) * Abs(b)

\* np.lcm.reduce over a non-empty list: a left fold; one element is returned as is
RECURSIVE LcmReduce(_)
LcmReduce(vals) ==
    IF Len(vals) = 1 THEN vals[1]
    ELSE Lcm(LcmReduce(SubSeq(vals, 1, Len(vals) - 1)), vals[Len(vals)])

\* sum of v[1..n]
RECURSIVE SumTo(_, _)
SumTo(v, n) == IF n = 0 THEN 0 ELSE SumTo(v, n - 1) + v[n]

\* "".join(strs[1..n])
RECURSIVE JoinTo(_, _)
JoinTo(strs, n) == IF n = 0 THEN "" ELSE JoinTo(strs, n - 1) \o strs[n]

\* (category >> i) & 1
ShiftAnd1(category, i) == (category \div (2 ^ i)) % 2

(***************************************************************************)
(* fizzbuzz.py: create_pattern(divisors).                                  *)
(***************************************************************************)

\* div_values = [d for d, _ in divisors]
DivValues(divs) == [j \in 1..Len(divs) |-> divs[j][1]]

\* period = np.lcm.reduce(div_values)
Period(divs) == LcmReduce(DivValues(divs))

\* a mutant of DivMatrix: the test of the remainder inverted
DivMatrixInverted(ns, dv) ==
    [p \in 1..Len(ns) |->
        [j \in 1..Len(dv) |-> IF NpMod(ns[p], dv[j]) # 0 THEN 1 ELSE 0]]

\* div_matrix = (nums % div_array == 0).astype(int), shape (len(nums), n_divisors)
DivMatrix(ns, dv) ==
    [p \in 1..Len(ns) |->
        [j \in 1..Len(dv) |-> IF NpMod(ns[p], dv[j]) = 0 THEN 1 ELSE 0]]

\* a mutant of Powers: 2 ** np.arange(1, k + 1)
PowersFromOne(k) == [j \in 1..k |-> 2 ^ j]

\* a mutant of Powers: the first divisor given the most significant bit
PowersReversed(k) == [j \in 1..k |-> 2 ^ (k - j)]

\* powers = 2 ** np.arange(k)
Powers(k) == [j \in 1..k |-> 2 ^ (j - 1)]

\* m @ pw: the matrix-vector product, one dot product per row
MatVec(m, pw) ==
    [p \in 1..Len(m) |->
        SumTo([j \in 1..Len(pw) |-> m[p][j] * pw[j]], Len(pw))]

\* the pattern of create_pattern: one category per position 1..period
PatternOf(divs) ==
    LET ns == Arange(1, Period(divs) + 1)
    IN  MatVec(DivMatrix(ns, DivValues(divs)), Powers(Len(divs)))

\* a mutant of Active: the bits read from the most significant down
ActiveReversed(category, divs) ==
    [j \in 1..Len(divs) |-> ShiftAnd1(category, Len(divs) - j)]

\* active = [(category >> i) & 1 for i in range(len(divisors))]
Active(category, divs) == [j \in 1..Len(divs) |-> ShiftAnd1(category, j - 1)]

\* a mutant of LabelsTo: the labels collected in reverse spec order
RECURSIVE LabelsToReversed(_, _, _)
LabelsToReversed(active, divs, n) ==
    IF n = 0 THEN <<>>
    ELSE IF active[n] # 0 THEN <<divs[n][2]>> \o LabelsToReversed(active, divs, n - 1)
    ELSE LabelsToReversed(active, divs, n - 1)

\* labels = [divisors[i][1] for i, a in enumerate(active) if a], up to index n
RECURSIVE LabelsTo(_, _, _)
LabelsTo(active, divs, n) ==
    IF n = 0 THEN <<>>
    ELSE IF active[n] # 0 THEN Append(LabelsTo(active, divs, n - 1), divs[n][2])
    ELSE LabelsTo(active, divs, n - 1)

\* a mutant of DecodeCategory: only the first active label is kept
DecodeCategoryFirstOnly(category, divs) ==
    LET labels == LabelsTo(Active(category, divs), divs, Len(divs))
    IN  IF labels # <<>> THEN labels[1] ELSE "{}"

\* the loop body: decoder[category] = "".join(labels) if labels else "{}"
DecodeCategory(category, divs) ==
    LET labels == LabelsTo(Active(category, divs), divs, Len(divs))
    IN  IF labels # <<>> THEN JoinTo(labels, Len(labels)) ELSE "{}"

\* for category in range(from, n_categories): decoder[category] = ...
RECURSIVE FillDecoder(_, _, _, _)
FillDecoder(dec, category, n_categories, divs) ==
    IF category >= n_categories THEN dec
    ELSE FillDecoder([dec EXCEPT ![category + 1] = DecodeCategory(category, divs)],
                     category + 1, n_categories, divs)

\* a mutant of DecoderOf: the filling loop starts at category 1
DecoderOfFromOne(divs) ==
    LET n_categories == 2 ^ Len(divs)
    IN  FillDecoder([c \in 1..n_categories |-> None], 1, n_categories, divs)

\* decoder = np.empty(n_categories, dtype=object), then the filling loop
DecoderOf(divs) ==
    LET n_categories == 2 ^ Len(divs)
    IN  FillDecoder([c \in 1..n_categories |-> None], 0, n_categories, divs)

\* np.lcm.reduce of an empty list raises (np.array([]) is float64, which lcm
\* does not accept); every other list goes through
CreatePatternRaises(divs) == IF Len(divs) = 0 THEN "TypeError" ELSE ""

(***************************************************************************)
(* fizzbuzz.py __main__: the generalized lookup over a created pattern,    *)
(* with nums = np.arange(start, start + count).                            *)
(***************************************************************************)

\* a mutant of LookupIndex: nums % len(pattern), the shift to 0-based forgotten
LookupIndexNoShift(ns, period) == [t \in 1..Len(ns) |-> NpMod(ns[t], period)]

\* (nums - 1) % len(pattern): the index of each number in the pattern
LookupIndex(ns, period) == [t \in 1..Len(ns) |-> NpMod(ns[t] - 1, period)]

\* a mutant of LookupMask: no number is filled in
LookupMaskNone(decoded, categories) == [t \in 1..Len(decoded) |-> FALSE]

\* number_mask = (result == "{}")
LookupMask(decoded, categories) == [t \in 1..Len(decoded) |-> decoded[t] = "{}"]

Lookup(pat, dec, start, count) ==
    LET ns         == Arange(start, start + count)
        idx        == LookupIndex(ns, Len(pat))
        inRange    == \A t \in 1..Len(ns) : idx[t] < Len(pat)
        categories == [t \in 1..Len(ns) |-> pat[idx[t] + 1]]
        decoded    == [t \in 1..Len(ns) |-> dec[categories[t] + 1]]
        mask       == LookupMask(decoded, categories)
    IN  IF ~inRange
        THEN [raised |-> "IndexError", result |-> <<>>]
        ELSE [raised |-> "",
              result |-> [t \in 1..Len(ns) |->
                            IF mask[t] THEN Str(ns[t]) ELSE decoded[t]]]

(***************************************************************************)
(* fizzbuzz.py: fizzbuzz(n) over the module-level PATTERN and DECODER.     *)
(***************************************************************************)

\* a mutant of DecoderAfterFill: the numbers are written through to entry 0 of DECODER
DecoderAfterFillShared(D, categories, ns) ==
    LET zeros == {t \in 1..Len(ns) : categories[t] = 0}
    IN  IF zeros = {} THEN D
        ELSE [D EXCEPT ![1] = Str(ns[CHOOSE t \in zeros : \A u \in zeros : u <= t])]

\* result = DECODER[categories].copy(); result[number_mask] = ...: the numbers are
\* written into the copy, and the module-level DECODER is as it was
DecoderAfterFill(D, categories, ns) == D

\* a mutant of FizzbuzzCategories: PATTERN[nums % 15]
FizzbuzzCategoriesNoShift(P, ns) == [t \in 1..Len(ns) |-> P[NpMod(ns[t], 15) + 1]]

\* categories = PATTERN[(nums - 1) % 15]
FizzbuzzCategories(P, ns) == [t \in 1..Len(ns) |-> P[NpMod(ns[t] - 1, 15) + 1]]

Fizzbuzz(P, D, n) ==
    LET ns          == Arange(1, n + 1)
        categories  == FizzbuzzCategories(P, ns)
        decoded     == [t \in 1..Len(ns) |-> D[categories[t] + 1]]
        number_mask == [t \in 1..Len(ns) |-> categories[t] = 0]
    IN  [t \in 1..Len(ns) |-> IF number_mask[t] THEN Str(ns[t]) ELSE decoded[t]]

(***************************************************************************)
(* fizzbuzz_batched.py: fizzbuzz_batched(batch_size, sequence_length,      *)
(* offset).  Row i+1, column j+1 of a matrix is its cell [i, j].           *)
(***************************************************************************)

\* a mutant of BatchedNums: the + 1 forgotten, the numbers start at offset
BatchedNumsNoPlusOne(batch_size, sequence_length, offset) ==
    [i \in 1..batch_size |->
        [j \in 1..sequence_length |-> offset + (i - 1) * sequence_length + (j - 1)]]

\* a mutant of BatchedNums: every batch starts over at offset + 1
BatchedNumsPerBatch(batch_size, sequence_length, offset) ==
    [i \in 1..batch_size |-> [j \in 1..sequence_length |-> offset + (j - 1) + 1]]

\* nums = offset + batch_offsets * sequence_length + positions + 1
BatchedNums(batch_size, sequence_length, offset) ==
    [i \in 1..batch_size |->
        [j \in 1..sequence_length |->
            offset + (i - 1) * sequence_length + (j - 1) + 1]]

\* div_tensor = (nums[:, :, None] % [3, 5] == 0).astype(int)
BatchedDivTensor(ns) ==
    [i \in 1..Len(ns) |->
        [j \in 1..Len(ns[i]) |->
            [d \in 1..2 |-> IF NpMod(ns[i][j], <<3, 5>>[d]) = 0 THEN 1 ELSE 0]]]

\* a mutant of BatchedCategories: the powers [2, 1]
BatchedCategoriesSwapped(dt) ==
    [i \in 1..Len(dt) |->
        [j \in 1..Len(dt[i]) |->
            SumTo([d \in 1..2 |-> dt[i][j][d] * <<2, 1>>[d]], 2)]]

\* categories = (div_tensor * [1, 2]).sum(axis=2)
BatchedCategories(dt) ==
    [i \in 1..Len(dt) |->
        [j \in 1..Len(dt[i]) |->
            SumTo([d \in 1..2 |-> dt[i][j][d] * <<1, 2>>[d]], 2)]]

\* the decoding double loop
BatchedResult(ns, categories) ==
    LET dec == <<"{}", "Fizz", "Buzz", "FizzBuzz">>
    IN  [i \in 1..Len(ns) |->
            [j \in 1..Len(ns[i]) |->
                IF categories[i][j] = 0 THEN Str(ns[i][j])
                ELSE dec[categories[i][j] + 1]]]

\* result = np.empty((batch_size, sequence_length), dtype=object) raises for a
\* negative dimension; nothing before it does
BatchedRaises(batch_size, sequence_length) ==
    IF batch_size < 0 \/ sequence_length < 0 THEN "ValueError" ELSE ""

FizzbuzzBatched(batch_size, sequence_length, offset) ==
    LET ns == BatchedNums(batch_size, sequence_length, offset)
        dt == BatchedDivTensor(ns)
    IN  IF BatchedRaises(batch_size, sequence_length) # ""
        THEN [raised |-> BatchedRaises(batch_size, sequence_length),
              result |-> <<>>, div_tensor |-> <<>>, nums |-> <<>>]
        ELSE [raised |-> "",
              result |-> BatchedResult(ns, BatchedCategories(dt)),
              div_tensor |-> dt, nums |-> ns]

(***************************************************************************)
(* fizzbuzz_compact.py: fizzbuzz(n) over PATTERN_COMPACT and DECODER.      *)
(***************************************************************************)

\* categories = PATTERN_COMPACT[div_by_3, div_by_5]
CompactCategories(PC, ns) ==
    [t \in 1..Len(ns) |->
        PC[(IF NpMod(ns[t], 3) = 0 THEN 1 ELSE 0) + 1]
          [(IF NpMod(ns[t], 5) = 0 THEN 1 ELSE 0) + 1]]

FizzbuzzCompact(PC, D, n) ==
    LET ns          == Arange(1, n + 1)
        categories  == CompactCategories(PC, ns)
        decoded     == [t \in 1..Len(ns) |-> D[categories[t] + 1]]
        number_mask == [t \in 1..Len(ns) |-> categories[t] = 0]
    IN  [t \in 1..Len(ns) |-> IF number_mask[t] THEN Str(ns[t]) ELSE decoded[t]]

(***************************************************************************)
(* dimensional_representations.py: the three representations and its       *)
(* fizzbuzz_batched(batch_size, sequence_length).                          *)
(***************************************************************************)

PATTERN_BINARY == << <<0, 2>>, <<1, 3>> >>

\* a mutant of PATTERN_MODULAR: the Fizz and Buzz cells exchanged
PATTERN_MODULAR_Swapped ==
    << <<3, 2, 2, 2, 2>>, <<1, 0, 0, 0, 0>>, <<1, 0, 0, 0, 0>> >>

PATTERN_MODULAR ==
    << <<3, 1, 1, 1, 1>>, <<2, 0, 0, 0, 0>>, <<2, 0, 0, 0, 0>> >>

PATTERN_VECTOR == <<0, 0, 1, 0, 2, 1, 0, 0, 1, 2, 0, 1, 0, 0, 3>>

\* decoder = [...]; result = decoder[categories].copy();
\* result[categories == 0] = nums[categories == 0].astype(str)
DimDecode(ns, categories) ==
    LET dec == <<"{}", "Fizz", "Buzz", "FizzBuzz">>
    IN  [t \in 1..Len(ns) |->
            IF categories[t] = 0 THEN Str(ns[t]) ELSE dec[categories[t] + 1]]

FizzbuzzBinary(n) ==
    LET ns == Arange(1, n + 1)
    IN  DimDecode(ns,
            [t \in 1..Len(ns) |->
                PATTERN_BINARY[(IF NpMod(ns[t], 3) = 0 THEN 1 ELSE 0) + 1]
                              [(IF NpMod(ns[t], 5) = 0 THEN 1 ELSE 0) + 1]])

FizzbuzzModular(n) ==
    LET ns == Arange(1, n + 1)
    IN  DimDecode(ns,
            [t \in 1..Len(ns) |->
                PATTERN_MODULAR[NpMod(ns[t], 3) + 1][NpMod(ns[t], 5) + 1]])

FizzbuzzVector(n) ==
    LET ns == Arange(1, n + 1)
    IN  DimDecode(ns,
            [t \in 1..Len(ns) |-> PATTERN_VECTOR[NpMod(ns[t] - 1, 15) + 1]])

\* nums = offsets * sequence_length + positions + 1
DimBatchedNums(batch_size, sequence_length) ==
    [i \in 1..batch_size |->
        [j \in 1..sequence_length |-> (i - 1) * sequence_length + (j - 1) + 1]]

\* the rest of the function is the code of fizzbuzz_batched.py, line for line
DimFizzbuzzBatched(batch_size, sequence_length) ==
    LET ns == DimBatchedNums(batch_size, sequence_length)
        dt == BatchedDivTensor(ns)
    IN  [result |-> BatchedResult(ns, BatchedCategories(dt)),
         div_matrix |-> dt, nums |-> ns]

(***************************************************************************)
(* Inputs.                                                                 *)
(***************************************************************************)

\* the scripts of the repository that are modelled
Programs ==
    {"fizzbuzz.py", "fizzbuzz_batched.py", "fizzbuzz_compact.py",
     "dimensional_representations.py"}

\* the divisor specs the repository itself uses
Classic == << <<3, "Fizz">>, <<5, "Buzz">> >>
FizzBuzzBazz == << <<3, "Fizz">>, <<5, "Buzz">>, <<7, "Bazz">> >>

\* a single-divisor spec
Quux == << <<4, "Quux">> >>

\* divisors, valid (1..MaxDivisor) and invalid (0, negative), and labels,
\* one of them the text of the placeholder
DivisorValues == {-3, 0} \cup (1..MaxDivisor)
LabelValues == {"Fizz", "{}"}

\* every spec of at most MaxDivisors (divisor, label) pairs, and the repository's own
SpecSet ==
    UNION {[1..k -> DivisorValues \X LabelValues] : k \in 0..MaxDivisors}
        \cup {Classic, FizzBuzzBazz, Quux}

\* the ranges looked up: start in 1..MaxStart and count in 0..MaxCount, position
\* 105 (the period of the 3-5-7 spec), and ranges with start < 1 or count < 0
LookupRanges ==
    ((1..MaxStart) \X (0..MaxCount))
        \cup {<<105, 1>>}
        \cup {<<0, 2>>, <<-1, 3>>, <<1, -1>>, <<0, -1>>}

\* the arguments of fizzbuzz(n): 0..MaxN, and a negative one
FizzbuzzArgs == (0..MaxN) \cup {-1}

\* the arguments of fizzbuzz_batched: sizes up to MaxBatch x MaxSeqLen from offsets
\* 0..MaxOffset, and negative sizes and offsets
BatchedArgs ==
    ((0..MaxBatch) \X (0..MaxSeqLen) \X (0..MaxOffset))
        \cup {<<-1, 2, 0>>, <<2, -1, 0>>, <<2, 3, -1>>, <<1, 4, -4>>}

\* the arguments of compare_representations: its own n = 30, and 0..MaxN
CompareArgs == (0..MaxN) \cup {30}

\* the arguments of the fizzbuzz_batched of dimensional_representations.py:
\* its own 3 batches of 10, and sizes up to MaxBatch x MaxSeqLen
DimBatchedArgs == ((0..MaxBatch) \X (0..MaxSeqLen)) \cup {<<3, 10>>}

NoCall == [op |-> "none", a |-> 0, b |-> 0, c |-> 0]

(***************************************************************************)
(* The state machine: a script is started, and calls its functions.        *)
(***************************************************************************)

Init ==
    /\ program \in Programs
    /\ pc = "idle"
    /\ PATTERN = <<0, 0, 1, 0, 2, 1, 0, 0, 1, 2, 0, 1, 0, 0, 3>>
    /\ PATTERN_COMPACT = << <<0, 2>>, <<1, 3>> >>
    /\ DECODER = <<"{}", "Fizz", "Buzz", "FizzBuzz">>
    /\ divisors = <<>>
    /\ built = FALSE
    /\ pattern = <<>>
    /\ decoder = <<>>
    /\ call = NoCall
    /\ raised = ""
    /\ result = <<>>
    /\ div_tensor = <<>>
    /\ nums = <<>>

\* pattern, decoder = create_pattern(divs)
CreatePattern ==
    /\ program = "fizzbuzz.py"
    /\ pc = "idle"
    /\ ~built
    /\ \E divs \in SpecSet :
        /\ divisors' = divs
        /\ call' = [op |-> "create_pattern", a |-> 0, b |-> 0, c |-> 0]
        /\ raised' = CreatePatternRaises(divs)
        /\ IF CreatePatternRaises(divs) # ""
           THEN UNCHANGED <<built, pattern, decoder>>
           ELSE /\ built' = TRUE
                /\ pattern' = PatternOf(divs)
                /\ decoder' = DecoderOf(divs)
    /\ pc' = "returned"
    /\ result' = <<>>
    /\ UNCHANGED <<program, PATTERN, PATTERN_COMPACT, DECODER, div_tensor, nums>>

\* the lookup of positions start .. start+count-1 in the created pattern
LookupCall ==
    /\ program = "fizzbuzz.py"
    /\ pc = "idle"
    /\ built
    /\ \E r \in LookupRanges :
        /\ call' = [op |-> "lookup", a |-> r[1], b |-> r[2], c |-> 0]
        /\ raised' = Lookup(pattern, decoder, r[1], r[2]).raised
        /\ result' = Lookup(pattern, decoder, r[1], r[2]).result
    /\ pc' = "returned"
    /\ UNCHANGED <<program, PATTERN, PATTERN_COMPACT, DECODER, divisors, built, pattern, decoder,
                   div_tensor, nums>>

\* result = fizzbuzz(n)
\* (show_pattern calls fizzbuzz(15) twice in a row: the same call may be repeated)
FizzbuzzCall ==
    /\ program = "fizzbuzz.py"
    /\ \E n \in FizzbuzzArgs :
        /\ pc = "idle" \/ (pc = "returned" /\ call.op = "fizzbuzz" /\ call.a = n)
        /\ call' = [op |-> "fizzbuzz", a |-> n, b |-> 0, c |-> 0]
        /\ result' = Fizzbuzz(PATTERN, DECODER, n)
        /\ DECODER' = DecoderAfterFill(DECODER,
                          FizzbuzzCategories(PATTERN, Arange(1, n + 1)),
                          Arange(1, n + 1))
    /\ raised' = ""
    /\ pc' = "returned"
    /\ UNCHANGED <<program, PATTERN, PATTERN_COMPACT, divisors, built, pattern,
                   decoder, div_tensor, nums>>

\* result = fizzbuzz(n) of fizzbuzz_compact.py
FizzbuzzCompactCall ==
    /\ program = "fizzbuzz_compact.py"
    /\ \E n \in FizzbuzzArgs :
        /\ pc = "idle" \/ (pc = "returned" /\ call.op = "fizzbuzz_compact" /\ call.a = n)
        /\ call' = [op |-> "fizzbuzz_compact", a |-> n, b |-> 0, c |-> 0]
        /\ result' = FizzbuzzCompact(PATTERN_COMPACT, DECODER, n)
        /\ DECODER' = DecoderAfterFill(DECODER,
                          CompactCategories(PATTERN_COMPACT, Arange(1, n + 1)),
                          Arange(1, n + 1))
    /\ raised' = ""
    /\ pc' = "returned"
    /\ UNCHANGED <<program, PATTERN, PATTERN_COMPACT, divisors, built, pattern,
                   decoder, div_tensor, nums>>

\* compare_representations: r1, r2, r3 = fizzbuzz_binary(n), fizzbuzz_modular(n),
\* fizzbuzz_vector(n), and the two asserts
CompareRepresentations ==
    /\ program = "dimensional_representations.py"
    /\ pc = "idle"
    /\ \E n \in CompareArgs :
        /\ call' = [op |-> "compare_representations", a |-> n, b |-> 0, c |-> 0]
        /\ result' = <<FizzbuzzBinary(n), FizzbuzzModular(n), FizzbuzzVector(n)>>
        /\ raised' = IF FizzbuzzBinary(n) # FizzbuzzModular(n)
                        \/ FizzbuzzModular(n) # FizzbuzzVector(n)
                     THEN "AssertionError" ELSE ""
    /\ pc' = "returned"
    /\ UNCHANGED <<program, PATTERN, PATTERN_COMPACT, DECODER, divisors, built,
                   pattern, decoder, div_tensor, nums>>

\* result, div_matrix = fizzbuzz_batched(batch_size, sequence_length) of
\* dimensional_representations.py; nums is its local
DimFizzbuzzBatchedCall ==
    /\ program = "dimensional_representations.py"
    /\ pc = "idle"
    /\ \E x \in DimBatchedArgs :
        /\ call' = [op |-> "dim_fizzbuzz_batched", a |-> x[1], b |-> x[2], c |-> 0]
        /\ result' = DimFizzbuzzBatched(x[1], x[2]).result
        /\ div_tensor' = DimFizzbuzzBatched(x[1], x[2]).div_matrix
        /\ nums' = DimFizzbuzzBatched(x[1], x[2]).nums
    /\ raised' = ""
    /\ pc' = "returned"
    /\ UNCHANGED <<program, PATTERN, PATTERN_COMPACT, DECODER, divisors, built,
                   pattern, decoder>>

\* result, div_tensor, nums = fizzbuzz_batched(batch_size, sequence_length, offset)
FizzbuzzBatchedCall ==
    /\ program = "fizzbuzz_batched.py"
    /\ pc = "idle"
    /\ \E x \in BatchedArgs :
        /\ call' = [op |-> "fizzbuzz_batched", a |-> x[1], b |-> x[2], c |-> x[3]]
        /\ raised' = FizzbuzzBatched(x[1], x[2], x[3]).raised
        /\ result' = FizzbuzzBatched(x[1], x[2], x[3]).result
        /\ div_tensor' = FizzbuzzBatched(x[1], x[2], x[3]).div_tensor
        /\ nums' = FizzbuzzBatched(x[1], x[2], x[3]).nums
    /\ pc' = "returned"
    /\ UNCHANGED <<program, PATTERN, PATTERN_COMPACT, DECODER, divisors, built, pattern, decoder>>

\* the caller is done with what the call returned (printed it, dropped it)
Discard ==
    /\ pc = "returned"
    /\ pc' = "idle"
    /\ call' = NoCall
    /\ raised' = ""
    /\ result' = <<>>
    /\ div_tensor' = <<>>
    /\ nums' = <<>>
    /\ UNCHANGED <<program, PATTERN, PATTERN_COMPACT, DECODER, divisors, built, pattern, decoder>>

Next ==
    \/ CreatePattern
    \/ LookupCall
    \/ FizzbuzzCall
    \/ FizzbuzzBatchedCall
    \/ FizzbuzzCompactCall
    \/ CompareRepresentations
    \/ DimFizzbuzzBatchedCall
    \/ Discard

Spec == Init /\ [][Next]_vars

(***************************************************************************)
(* Properties.                                                             *)
(***************************************************************************)

\* a valid divisor spec: non-empty, every divisor a positive integer
ValidSpec(divs) == Len(divs) >= 1 /\ \A j \in 1..Len(divs) : divs[j][1] >= 1

\* bit j (0 = least significant) of a non-negative integer
Bit(c, j) == (c \div (2 ^ j)) % 2

RECURSIVE ProductTo(_, _)
ProductTo(divs, n) == IF n = 0 THEN 1 ELSE ProductTo(divs, n - 1) * divs[n][1]

\* the least common multiple of a valid spec's divisors, by its definition:
\* the least positive integer every divisor divides
CommonMultiples(divs) ==
    {m \in 1..ProductTo(divs, Len(divs)) : \A j \in 1..Len(divs) : m % divs[j][1] = 0}
LeastCommonMultiple(divs) ==
    CHOOSE m \in CommonMultiples(divs) : \A x \in CommonMultiples(divs) : m <= x

\* C1: in the table create_pattern returns for a valid spec, for every position
\* p in 1..period (the least common multiple), bit j of pattern[p-1] is 1 iff
\* divisors[j] divides p, bit 0 belonging to the first divisor of the spec.
C1_PatternBits ==
    (built /\ ValidSpec(divisors)) =>
        \A p \in 1..LeastCommonMultiple(divisors) :
            /\ p \in DOMAIN pattern
            /\ \A j \in 1..Len(divisors) :
                (Bit(pattern[p], j - 1) = 1) <=> (p % divisors[j][1] = 0)

\* C1 witness: a valid two-divisor table with a position only the second divisor divides
C1_Witness ==
    /\ built /\ ValidSpec(divisors) /\ Len(divisors) = 2
    /\ call.op = "create_pattern"
    /\ \E p \in DOMAIN pattern : pattern[p] = 2

\* C2: for the classic spec, the lookup of positions 1..15 in the created table
\* is exactly 1 2 Fizz 4 Buzz Fizz 7 8 Fizz Buzz 11 Fizz 13 14 FizzBuzz.
C2_ClassicScenario ==
    (built /\ divisors = Classic /\ call.op = "lookup" /\ call.a = 1 /\ call.b = 15) =>
        /\ raised = ""
        /\ result = <<"1", "2", "Fizz", "4", "Buzz", "Fizz", "7", "8", "Fizz",
                      "Buzz", "11", "Fizz", "13", "14", "FizzBuzz">>

\* C2 witness: the classic lookup of 1..15 has returned
C2_Witness ==
    /\ built /\ divisors = Classic /\ pc = "returned"
    /\ call.op = "lookup" /\ call.a = 1 /\ call.b = 15
    /\ Len(result) = 15

\* the FizzBuzz label of i, by the rule
FizzBuzzLabel(i) ==
    IF i % 3 = 0 /\ i % 5 = 0 THEN "FizzBuzz"
    ELSE IF i % 3 = 0 THEN "Fizz"
    ELSE IF i % 5 = 0 THEN "Buzz"
    ELSE Str(i)

\* C3: element i-1 of fizzbuzz(n) is FizzBuzz, Fizz, Buzz or the decimal string
\* of i, by the divisibility of i by 3 and 5, for every i in 1..n.
C3_FizzbuzzRule ==
    (call.op = "fizzbuzz" /\ call.a >= 0) =>
        /\ Len(result) = call.a
        /\ \A i \in 1..call.a : i \in DOMAIN result /\ result[i] = FizzBuzzLabel(i)

\* C3 witness: fizzbuzz(n) has returned for an n beyond one period of 15
C3_Witness ==
    /\ call.op = "fizzbuzz" /\ pc = "returned" /\ call.a > 15
    /\ result[15] = "FizzBuzz" /\ result[16] = "16"

\* C4: the table create_pattern returns for a valid spec has exactly
\* lcm(divisors) entries.
C4_TableLength ==
    (built /\ ValidSpec(divisors)) => Len(pattern) = LeastCommonMultiple(divisors)

\* C4 witness: a valid spec whose least common multiple is below the product
C4_Witness ==
    /\ built /\ ValidSpec(divisors) /\ Len(divisors) = 2
    /\ call.op = "create_pattern"
    /\ Len(pattern) < divisors[1][1] * divisors[2][1]

\* C5: the decoder create_pattern returns has exactly 2^k entries, none left
\* None, so every category of the table decodes.
C5_DecoderComplete ==
    built =>
        /\ Len(decoder) = 2 ^ Len(divisors)
        /\ \A c \in 0..(2 ^ Len(divisors) - 1) :
            c + 1 \in DOMAIN decoder /\ decoder[c + 1] # None
        /\ \A p \in DOMAIN pattern : pattern[p] + 1 \in DOMAIN decoder

\* C5 witness: a decoder of a two-divisor spec has been returned
C5_Witness ==
    /\ built /\ call.op = "create_pattern" /\ Len(divisors) = 2
    /\ Len(decoder) = 4 /\ Len(pattern) > 0

\* the labels of the set bits of c among the first n divisors, concatenated in spec order
RECURSIVE LabelsOfBits(_, _, _)
LabelsOfBits(c, divs, n) ==
    IF n = 0 THEN ""
    ELSE LabelsOfBits(c, divs, n - 1) \o (IF Bit(c, n - 1) = 1 THEN divs[n][2] ELSE "")

\* C6: decoder[0] is the placeholder "{}", and for c > 0 decoder[c] is the
\* concatenation, in spec order, of exactly the labels whose bit is set in c.
C6_DecoderEntries ==
    built =>
        /\ 1 \in DOMAIN decoder /\ decoder[1] = "{}"
        /\ \A c \in 1..(2 ^ Len(divisors) - 1) :
            /\ c + 1 \in DOMAIN decoder
            /\ decoder[c + 1] = LabelsOfBits(c, divisors, Len(divisors))

\* C6 witness: two different labels, decoded together in spec order
C6_Witness ==
    /\ built /\ call.op = "create_pattern" /\ Len(divisors) = 2
    /\ divisors[1][2] # divisors[2][2]
    /\ decoder[4] = divisors[1][2] \o divisors[2][2]

\* the category of position i in a table, and what a lookup by category gives there
CategoryAt(pat, i) == pat[((i - 1) % Len(pat)) + 1]
ByCategory(pat, dec, i) ==
    IF CategoryAt(pat, i) = 0 THEN Str(i) ELSE dec[CategoryAt(pat, i) + 1]

\* C7: a lookup over [start, start+count) returns count elements, the element
\* of position i being the decimal string of i when the table's category at
\* (i-1) mod period is zero and decoder[category] otherwise, whatever the labels.
C7_LookupByCategory ==
    /\ (call.op = "lookup" /\ built /\ ValidSpec(divisors)
            /\ call.a >= 1 /\ call.b >= 0) =>
        /\ raised = ""
        /\ Len(result) = call.b
        /\ \A t \in 1..call.b :
            t \in DOMAIN result
                /\ result[t] = ByCategory(pattern, decoder, call.a + t - 1)
    /\ (call.op = "fizzbuzz" /\ call.a >= 0) =>
        /\ Len(result) = call.a
        /\ \A t \in 1..call.a :
            t \in DOMAIN result /\ result[t] = ByCategory(PATTERN, DECODER, t)

\* C8 as claimed: the lookup result at position i equals the result at i + period.
C8_ResultPeriodic ==
    /\ (call.op = "lookup" /\ built /\ ValidSpec(divisors) /\ raised = ""
            /\ call.a >= 1) =>
        \A t \in 1..call.b :
            (t + Len(pattern) <= call.b) => result[t] = result[t + Len(pattern)]
    /\ (call.op = "fizzbuzz") =>
        \A t \in 1..call.a : (t + 15 <= call.a) => result[t] = result[t + 15]

\* C8 amended: the results at positions i and i + period are equal wherever a
\* label is emitted (the decoded entry is not the text "{}" in the generalized
\* lookup, the category is not 0 in fizzbuzz); wherever the number is emitted
\* they are the decimal strings of i and of i + period.
C8_LabelsPeriodic ==
    /\ (call.op = "lookup" /\ built /\ raised = "" /\ Len(pattern) > 0) =>
        \A t \in 1..call.b :
            (t + Len(pattern) <= call.b) =>
                LET i == call.a + t - 1
                    u == t + Len(pattern)
                IN  /\ t \in DOMAIN result /\ u \in DOMAIN result
                    /\ IF decoder[CategoryAt(pattern, i) + 1] # "{}"
                       THEN result[t] = result[u]
                       ELSE result[t] = Str(i) /\ result[u] = Str(i + Len(pattern))
    /\ (call.op = "fizzbuzz") =>
        \A t \in 1..call.a :
            (t + 15 <= call.a) =>
                /\ t \in DOMAIN result /\ (t + 15) \in DOMAIN result
                /\ IF CategoryAt(PATTERN, t) # 0
                   THEN result[t] = result[t + 15]
                   ELSE result[t] = Str(t) /\ result[t + 15] = Str(t + 15)

\* C8 witness: a lookup longer than the period, with a label repeated one period
\* later and a number not repeated
C8_Witness ==
    /\ call.op = "lookup" /\ built /\ ValidSpec(divisors) /\ raised = ""
    /\ pc = "returned" /\ Len(pattern) > 1
    /\ \E t \in 1..call.b :
        /\ t + Len(pattern) <= call.b
        /\ CategoryAt(pattern, call.a + t - 1) # 0
        /\ result[t] = result[t + Len(pattern)]
    /\ \E t \in 1..call.b :
        /\ t + Len(pattern) <= call.b
        /\ result[t] # result[t + Len(pattern)]

\* the rows m[1..n] of a matrix, concatenated in row order
RECURSIVE ConcatRows(_, _)
ConcatRows(m, n) == IF n = 0 THEN <<>> ELSE ConcatRows(m, n - 1) \o m[n]

\* C9: a lookup over [start, start+count) equals the concatenation, in range
\* order, of the lookups over the contiguous sub-ranges of any split of it
\* (checked for the split in two at every cut and for the split into single
\* positions, the coarsest and the finest splits);
\* and the rows of fizzbuzz_batched(B, L, offset), concatenated in batch order,
\* are the classic lookup over offset+1 .. offset+B*L, fizzbuzz(B*L) when offset = 0.
C9_BatchingEquivalence ==
    /\ (call.op = "lookup" /\ built /\ raised = "" /\ call.a >= 1 /\ call.b >= 0) =>
        /\ \A c1 \in 0..call.b :
            result = Lookup(pattern, decoder, call.a, c1).result
                     \o Lookup(pattern, decoder, call.a + c1, call.b - c1).result
        /\ result = ConcatRows([t \in 1..call.b |->
                                  Lookup(pattern, decoder, call.a + t - 1, 1).result],
                               call.b)
    /\ (call.op = "fizzbuzz_batched" /\ raised = "") =>
        /\ Len(result) = call.a
        /\ ConcatRows(result, Len(result))
             = Lookup(PatternOf(Classic), DecoderOf(Classic),
                      call.c + 1, call.a * call.b).result
        /\ (call.c = 0) =>
             ConcatRows(result, Len(result))
                = Fizzbuzz(PATTERN, DECODER, call.a * call.b)

\* C9 witness: several batches from offset 0 that together pass one period
C9_Witness ==
    /\ call.op = "fizzbuzz_batched" /\ pc = "returned"
    /\ call.a >= 2 /\ call.b >= 2 /\ call.c = 0 /\ call.a * call.b > 15
    /\ result[2][1] = Str(call.b + 1)

\* C10: create_pattern raises for an empty spec and for a spec with a
\* non-positive divisor, and returns no table or decoder for it.
C10_RejectsInvalidSpec ==
    (call.op = "create_pattern" /\ ~ValidSpec(divisors)) =>
        raised # "" /\ ~built

\* C11: a lookup with start < 1 or count < 0 raises and returns no sequence
\* (fizzbuzz(n) is the lookup of start 1 and count n).
C11_RejectsInvalidRange ==
    /\ (call.op = "lookup" /\ (call.a < 1 \/ call.b < 0)) => raised # ""
    /\ (call.op = "fizzbuzz" /\ call.a < 0) => raised # ""

\* C12: fizzbuzz_binary(n), fizzbuzz_modular(n) and fizzbuzz_vector(n) return the
\* same sequence, element for element, for every n >= 0 (the asserts of
\* compare_representations pass), and so does the fizzbuzz of fizzbuzz_compact.py.
C12_RepresentationsAgree ==
    /\ (call.op = "compare_representations") =>
        /\ raised = ""
        /\ Len(result[1]) = call.a
        /\ result[1] = result[2]
        /\ result[2] = result[3]
    /\ (call.op = "fizzbuzz_compact" /\ call.a >= 0) =>
        result = FizzbuzzVector(call.a)

\* C12 witness: the three representations compared for n = 30, two periods
C12_Witness ==
    /\ call.op = "compare_representations" /\ pc = "returned" /\ call.a = 30
    /\ raised = ""
    /\ result[2][30] = "FizzBuzz" /\ result[1][29] = "29"

\* C13: for the spec 3 Fizz, 5 Buzz, 7 Bazz the table has period 105 and
\* position 105 decodes to FizzBuzzBazz.
C13_FizzBuzzBazz ==
    (built /\ divisors = FizzBuzzBazz) =>
        /\ Len(pattern) = 105
        /\ pattern[105] + 1 \in DOMAIN decoder
        /\ decoder[pattern[105] + 1] = "FizzBuzzBazz"
        /\ (call.op = "lookup" /\ call.a = 105 /\ call.b = 1) =>
            result = <<"FizzBuzzBazz">>

\* C13 witness: position 105 of the 3-5-7 table has been looked up
C13_Witness ==
    /\ built /\ divisors = FizzBuzzBazz /\ pc = "returned"
    /\ call.op = "lookup" /\ call.a = 105 /\ call.b = 1
    /\ Len(result) = 1

\* C14: for the single-divisor spec 4 Quux the table has period 4 and the
\* lookup of positions 1, 2, 3, 4 gives 1, 2, 3, Quux.
C14_Quux ==
    (built /\ divisors = Quux) =>
        /\ Len(pattern) = 4
        /\ (call.op = "lookup" /\ call.a = 1 /\ call.b = 4) =>
            result = <<"1", "2", "3", "Quux">>

\* C14 witness: positions 1..4 of the Quux table have been looked up
C14_Witness ==
    /\ built /\ divisors = Quux /\ pc = "returned"
    /\ call.op = "lookup" /\ call.a = 1 /\ call.b = 4
    /\ Len(result) = 4

\* C15: no call changes the module-level tables: PATTERN, PATTERN_COMPACT and
\* DECODER are after every step what they were before it, and a fizzbuzz call
\* repeated with the same argument returns the same sequence again.
C15_TablesImmutable ==
    [][/\ PATTERN' = PATTERN
       /\ PATTERN_COMPACT' = PATTERN_COMPACT
       /\ DECODER' = DECODER
       /\ (call.op \in {"fizzbuzz", "fizzbuzz_compact"}
             /\ call'.op = call.op /\ call'.a = call.a) => result' = result]_vars

\* C15 witness: fizzbuzz(15) has returned after earlier calls (a table was created
\* before it), and the tables are the ones the module was loaded with
C15_Witness ==
    /\ pc = "returned" /\ call.op = "fizzbuzz" /\ call.a = 15 /\ built
    /\ result[15] = "FizzBuzz" /\ result[1] = "1"
    /\ DECODER = <<"{}", "Fizz", "Buzz", "FizzBuzz">>
    /\ PATTERN = <<0, 0, 1, 0, 2, 1, 0, 0, 1, 2, 0, 1, 0, 0, 3>>

\* C16: every entry of the table create_pattern returns for a valid spec of k
\* divisors is an integer in [0, 2^k).
C16_CategoriesInRange ==
    (built /\ ValidSpec(divisors)) =>
        \A p \in DOMAIN pattern : pattern[p] \in 0..(2 ^ Len(divisors) - 1)

\* C16 witness: a valid two-divisor table holding both the least and the greatest category
C16_Witness ==
    /\ built /\ ValidSpec(divisors) /\ Len(divisors) = 2
    /\ call.op = "create_pattern"
    /\ \E p \in DOMAIN pattern : pattern[p] = 0
    /\ \E p \in DOMAIN pattern : pattern[p] = 3

\* C17: create_pattern on the classic spec returns a table equal to the constant
\* PATTERN (15 entries) and a decoder equal to the constant DECODER.
C17_ClassicEqualsConstants ==
    (built /\ divisors = Classic) =>
        /\ Len(pattern) = 15
        /\ pattern = PATTERN
        /\ decoder = DECODER

\* C17 witness: create_pattern has returned for the classic spec
C17_Witness ==
    /\ built /\ divisors = Classic /\ call.op = "create_pattern" /\ pc = "returned"
    /\ Len(pattern) = 15 /\ Len(decoder) = 4

\* C20: in the table of a valid spec of k divisors the category 2^k - 1 (every
\* divisor divides) stands at the last position of the period and at no earlier
\* one; so it does in the constant PATTERN.
C20_AllBitsOnlyLast ==
    /\ (built /\ ValidSpec(divisors)) =>
        /\ Len(pattern) >= 1
        /\ pattern[Len(pattern)] = 2 ^ Len(divisors) - 1
        /\ \A p \in 1..(Len(pattern) - 1) : pattern[p] # 2 ^ Len(divisors) - 1
    /\ PATTERN[15] = 3
    /\ \A p \in 1..14 : PATTERN[p] # 3

\* C20 witness: a valid two-divisor table longer than either divisor
C20_Witness ==
    /\ built /\ ValidSpec(divisors) /\ Len(divisors) = 2
    /\ call.op = "create_pattern"
    /\ Len(pattern) > divisors[1][1] /\ Len(pattern) > divisors[2][1]
    /\ pattern[Len(pattern)] = 3

\* the call is one of the two fizzbuzz_batched and has returned its arrays
BatchedReturned ==
    call.op \in {"fizzbuzz_batched", "dim_fizzbuzz_batched"} /\ raised = ""

\* C18: in fizzbuzz_batched(B, L, offset) (offset 0 in dimensional_representations.py)
\* nums[i][j] = offset + i*L + j + 1 for 0 <= i < B, 0 <= j < L: batch i starts at
\* offset + i*L + 1, right after the end of batch i-1, and the batches hold every
\* integer of offset+1 .. offset+B*L exactly once.
C18_BatchedNums ==
    BatchedReturned =>
        /\ Len(nums) = call.a
        /\ \A i \in 0..(call.a - 1) :
            /\ Len(nums[i + 1]) = call.b
            /\ \A j \in 0..(call.b - 1) :
                nums[i + 1][j + 1] = call.c + i * call.b + j + 1
            /\ (i >= 1 /\ call.b >= 1) => nums[i + 1][1] = nums[i][call.b] + 1
        /\ \A v \in (call.c + 1)..(call.c + call.a * call.b) :
            Cardinality({x \in (1..call.a) \X (1..call.b) : nums[x[1]][x[2]] = v}) = 1

\* C18 witness: several batches of several numbers from a non-zero offset
C18_Witness ==
    /\ call.op = "fizzbuzz_batched" /\ raised = "" /\ pc = "returned"
    /\ call.a >= 3 /\ call.b >= 2 /\ call.c >= 1
    /\ nums[3][1] = nums[2][call.b] + 1

\* C19: in both fizzbuzz_batched, the divisibility bits of a cell are those of its
\* number by 3 and by 5, and for a cell with nums[i][j] >= 1 the result is the
\* FizzBuzz label of nums[i][j], whatever i, j, B and L; the two functions return
\* the same arrays when offset = 0.
C19_BatchedLabels ==
    /\ BatchedReturned =>
        /\ Len(result) = Len(nums) /\ Len(div_tensor) = Len(nums)
        /\ \A i \in DOMAIN nums :
            /\ Len(result[i]) = Len(nums[i]) /\ Len(div_tensor[i]) = Len(nums[i])
            /\ \A j \in DOMAIN nums[i] :
                /\ div_tensor[i][j] = <<IF nums[i][j] % 3 = 0 THEN 1 ELSE 0,
                                        IF nums[i][j] % 5 = 0 THEN 1 ELSE 0>>
                /\ (nums[i][j] >= 1) => result[i][j] = FizzBuzzLabel(nums[i][j])
    /\ (call.op = "fizzbuzz_batched" /\ raised = "" /\ call.c = 0) =>
        /\ result = DimFizzbuzzBatched(call.a, call.b).result
        /\ div_tensor = DimFizzbuzzBatched(call.a, call.b).div_matrix

\* C19 witness: a batch beyond the first, from a non-zero offset, holding 15
C19_Witness ==
    /\ call.op = "fizzbuzz_batched" /\ raised = "" /\ pc = "returned"
    /\ call.c >= 1 /\ call.a >= 2
    /\ \E i \in 2..call.a : \E j \in 1..call.b :
        nums[i][j] = 15 /\ result[i][j] = "FizzBuzz"

====
